---------------------------- MODULE Spec2Model ----------------------------
(***************************************************************************)
(* A model of the s/old/new replace plugin (server/plugin.go).             *)
(*                                                                         *)
(* Strings are sequences of one-character strings, so that trimming,       *)
(* prefix tests, splitting and the regular-expression replacement are      *)
(* computed character by character, as the Go library functions do.        *)
(***************************************************************************)
EXTENDS Integers, Sequences, FiniteSets, TLC

VARIABLES
    \* ---- the message-intercept hook and the host it talks to ----
    posts,      \* the host's post store: post id -> [UserId, CreateAt, RootId, Message]
    pc,         \* "idle": a message is about to be posted; "returned": the hook has
                \* returned; "done": the host has acted on what the hook returned
    post,       \* the about-to-be-posted message handed to the hook
    host,       \* what the host answers to the hook's calls during this event
    prev,       \* the post store as it was when the hook was entered
    calls,      \* the host API calls the hook made during this event, in order
    ret,        \* the reason code the hook returned (empty = allow unmodified)
    target,     \* the id of the post the hook selected (empty = none)
    \* ---- splitAndValidateInput applied on its own ----
    pmsg, pres, ppc,
    \* ---- replace applied on its own ----
    rstr, rold, rnew, rout, rout2, rpc

hookVars == <<posts, pc, post, host, prev, calls, ret, target>>
parseVars == <<pmsg, pres, ppc>>
replVars == <<rstr, rold, rnew, rout, rout2, rpc>>
vars == <<hookVars, parseVars, replVars>>

-----------------------------------------------------------------------------
(* Bounds of the model *)

\* longest message handed to the hook
MaxCmdLen == 6
\* longest message handed to splitAndValidateInput on its own
MaxParseLen == 7
\* longest target text, pattern and replacement handed to replace on its own
MaxStrLen == 5
MaxOldLen == 3
MaxNewLen == 2

\* all strings over alphabet A of length at most n
Strs(A, n) == UNION {[1..k -> A] : k \in 0..n}

-----------------------------------------------------------------------------
(* The Go string functions the plugin uses *)

\* unicode.IsSpace, on the characters of the model
IsSpace(c) == c = " "

\* \w of the regular-expression syntax: [0-9A-Za-z_]
IsWordChar(c) ==
    c \in {
     "a", "b", "c", "d", "e", "f", "g", "h", "i", "j", "k", "l", "m",
     "n", "o", "p", "q", "r", "s", "t", "u", "v", "w", "x", "y", "z",
     "A", "B", "C", "D", "E", "F", "G", "H", "I", "J", "K", "L", "M",
     "N", "O", "P", "Q", "R", "S", "T", "U", "V", "W", "X", "Y", "Z",
     "0", "1", "2", "3", "4", "5", "6", "7", "8", "9", "_"}

RECURSIVE TrimLeft(_)
TrimLeft(s) ==
    IF s # <<>> /\ IsSpace(Head(s)) THEN TrimLeft(Tail(s)) ELSE s

RECURSIVE TrimRight(_)
TrimRight(s) ==
    IF s # <<>> /\ IsSpace(s[Len(s)]) THEN TrimRight(SubSeq(s, 1, Len(s) - 1)) ELSE s

\* strings.TrimSpace
TrimSpace(s) == TrimRight(TrimLeft(s))

\* p occurs somewhere in s
HasSubstring(s, p) ==
    \E i \in 0..(Len(s) - Len(p)) : SubSeq(s, i + 1, i + Len(p)) = p

\* strings.HasPrefix
HasPrefix(s, p) == Len(s) >= Len(p) /\ SubSeq(s, 1, Len(p)) = p

\* strings.TrimPrefix
TrimPrefix(s, p) == IF HasPrefix(s, p) THEN SubSeq(s, Len(p) + 1, Len(s)) ELSE s

\* strings.Split(s, sep) for a one-character separator: always at least one segment
RECURSIVE Split(_, _)
Split(s, sep) ==
    IF \A i \in 1..Len(s) : s[i] # sep
    THEN <<s>>
    ELSE LET i == CHOOSE j \in 1..Len(s) : s[j] = sep /\ \A k \in 1..(j - 1) : s[k] # sep
         IN  <<SubSeq(s, 1, i - 1)>> \o Split(SubSeq(s, i + 1, Len(s)), sep)

cmdPrefix == <<"s", "/">>

\* a validation that does not look at the second segment
ValidateFirstOnly(strs) ==
    IF Len(strs) < 2 \/ Len(strs[1]) < 1
    THEN [strs |-> <<>>, err |-> "Bad user input"]
    ELSE [strs |-> strs, err |-> ""]

\* the check of the segments: the segments and no error, or the error and no segments
ValidateStrs(strs) ==
    IF Len(strs) < 2 \/ Len(strs[1]) < 1 \/ Len(strs[2]) < 1
    THEN [strs |-> <<>>, err |-> "Bad user input"]
    ELSE [strs |-> strs, err |-> ""]

\* the input taken as it is
UntrimmedInput(message) == TrimPrefix(message, cmdPrefix)

\* input := strings.TrimSpace(strings.TrimPrefix(message, s/))
NormalizeInput(message) == TrimSpace(TrimPrefix(message, cmdPrefix))

splitAndValidateInput(message) ==
    LET input == NormalizeInput(message)
    IN  IF input = <<>>
        THEN [strs |-> <<>>, err |-> "No input"]
        ELSE ValidateStrs(Split(input, "/"))


-----------------------------------------------------------------------------
(* replace: regexp.MustCompile of \b(old)\b, then ReplaceAllString(str, new) *)
(* The patterns of the model are made of characters that stand for         *)
(* themselves in the regular-expression syntax (letters, digits, space),   *)
(* so the compiled expression matches the text old between two \b.         *)

\* \b at offset i of s (between s[i] and s[i+1]): exactly one side is a word character
WordBoundary(s, i) ==
    (i >= 1 /\ IsWordChar(s[i])) # (i < Len(s) /\ IsWordChar(s[i + 1]))

\* the pattern \b(old)\b matches at offset i of s
MatchAt(s, old, i) ==
    /\ i + Len(old) <= Len(s)
    /\ SubSeq(s, i + 1, i + Len(old)) = old
    /\ WordBoundary(s, i)
    /\ WordBoundary(s, i + Len(old))

IsDigit(c) == c \in {"0", "1", "2", "3", "4", "5", "6", "7", "8", "9"}

DigitVal(c) ==
    CASE c = "0" -> 0 [] c = "1" -> 1 [] c = "2" -> 2 [] c = "3" -> 3 [] c = "4" -> 4
      [] c = "5" -> 5 [] c = "6" -> 6 [] c = "7" -> 7 [] c = "8" -> 8 [] c = "9" -> 9

\* regexp's extract: the length of the name that starts a template reference
NameLen(t) ==
    IF \A i \in 1..Len(t) : IsWordChar(t[i])
    THEN Len(t)
    ELSE (CHOOSE i \in 1..Len(t) :
              ~IsWordChar(t[i]) /\ \A k \in 1..(i - 1) : IsWordChar(t[k])) - 1

\* regexp's extract: the number a name denotes, -1 when it is not a group number
RECURSIVE NameNum(_)
NameNum(name) ==
    IF \E i \in 1..Len(name) : ~IsDigit(name[i]) THEN -1
    ELSE IF name[1] = "0" /\ Len(name) > 1 THEN -1
    ELSE IF Len(name) = 1 THEN DigitVal(name[1])
    ELSE 10 * NameNum(SubSeq(name, 1, Len(name) - 1)) + DigitVal(name[Len(name)])

\* the text of the group a template name refers to: the expression has groups 0
\* (the match) and 1 (the parenthesis, the same text) and no named group
GroupText(name, m) ==
    IF NameNum(name) \in {0, 1} THEN m ELSE <<>>

\* regexp's expand: the replacement template t with $name, ${name} and $$ resolved
RECURSIVE Expand(_, _)
Expand(t, m) ==
    IF t = <<>> THEN <<>>
    ELSE IF Head(t) # "$" THEN <<Head(t)>> \o Expand(Tail(t), m)
    ELSE LET after == Tail(t)
         IN  IF after # <<>> /\ Head(after) = "$"
             THEN <<"$">> \o Expand(Tail(after), m)
             ELSE LET brace == after # <<>> /\ Head(after) = "{"
                      str   == IF brace THEN Tail(after) ELSE after
                      n     == NameLen(str)
                      ok    == n > 0 /\ (brace => (n < Len(str) /\ str[n + 1] = "}"))
                      used  == IF brace THEN n + 1 ELSE n
                  IN  IF ~ok
                      THEN <<"$">> \o Expand(after, m)
                      ELSE GroupText(SubSeq(str, 1, n), m)
                               \o Expand(SubSeq(str, used + 1, Len(str)), m)

\* ReplaceAllString from offset i on: leftmost matches, none overlapping
RECURSIVE ReplaceFrom(_, _, _, _)
ReplaceFrom(s, old, new, i) ==
    IF i >= Len(s) THEN <<>>
    ELSE IF MatchAt(s, old, i)
         THEN Expand(new, old) \o ReplaceFrom(s, old, new, i + Len(old))
         ELSE <<s[i + 1]>> \o ReplaceFrom(s, old, new, i + 1)

\* a replacement of the first match only
ReplaceFirstOnly(s, old, new) ==
    IF \E i \in 0..Len(s) : MatchAt(s, old, i)
    THEN LET i == CHOOSE j \in 0..Len(s) :
                      MatchAt(s, old, j) /\ \A k \in 0..(j - 1) : ~MatchAt(s, old, k)
         IN  SubSeq(s, 1, i) \o Expand(new, old) \o SubSeq(s, i + Len(old) + 1, Len(s))
    ELSE s

\* replace(str, old, new), for a non-empty old
replace(s, old, new) == ReplaceFrom(s, old, new, 0)

-----------------------------------------------------------------------------
(* The host: users, the post store, and what it answers to the plugin *)

Users == {"u1", "u2"}

\* model.User of a user id: [Id, Username]
UserOf(uid) == [Id |-> uid, Username |-> uid]

\* the channel every message of the model is posted in, and its team
Channel == [Id |-> "c1", TeamId |-> "team1"]

\* the thread-root ids a message can carry: none, or one of two stored threads
RootIds == {"", "r1", "r2"}

\* characters of the messages handed to the hook
HookChars == {"s", "/", "a", " "}

\* the messages the host hands to the hook
Incoming ==
    [Message : Strs(HookChars, MaxCmdLen), UserId : Users,
     ChannelId : {Channel.Id}, RootId : RootIds]

\* the creation times of the replies of thread r1, and of a message posted now
ReplyTimes == {2, 3}
Now == (CHOOSE t \in ReplyTimes : \A u \in ReplyTimes : u =< t) + 1

\* the stores the hook is entered with: thread r1 is u2's root post and two
\* replies of u1 (posted in any order, possibly in the same millisecond),
\* thread r2 is u2's root post alone
Stores ==
    {[id \in {"r1", "p1", "p2", "r2"} |->
        CASE id = "r1" -> [UserId |-> "u2", CreateAt |-> 1, RootId |-> "",
                           Message |-> <<"a", "a", " ", "a">>]
          [] id = "p1" -> [UserId |-> "u1", CreateAt |-> t1, RootId |-> "r1",
                           Message |-> <<"a", " ", "s", " ", "a">>]
          [] id = "p2" -> [UserId |-> "u1", CreateAt |-> t2, RootId |-> "r1",
                           Message |-> <<"s", "a", " ", "a">>]
          [] id = "r2" -> [UserId |-> "u2", CreateAt |-> 1, RootId |-> "",
                           Message |-> <<"a">>]]
     : t1 \in ReplyTimes, t2 \in ReplyTimes}

\* GetPostThread(rootId): the ids of the root post and of its replies (a map, in no order)
ThreadIds(store, rootId) ==
    {id \in DOMAIN store : id = rootId \/ store[id].RootId = rootId}

\* all orders of a set of ids
Perms(S) ==
    {f \in [1..Cardinality(S) -> S] : \A i, j \in 1..Cardinality(S) : i # j => f[i] # f[j]}

\* sort.Slice on a short slice is an insertion sort: x moves towards the front
\* while it is newer than the post before it (SortByCreateAt orders newest first)
RECURSIVE InsertNewestFirst(_, _, _)
InsertNewestFirst(store, sorted, x) ==
    IF sorted = <<>> THEN <<x>>
    ELSE IF store[x].CreateAt > store[sorted[Len(sorted)]].CreateAt
         THEN InsertNewestFirst(store, SubSeq(sorted, 1, Len(sorted) - 1), x)
                  \o <<sorted[Len(sorted)]>>
         ELSE sorted \o <<x>>

\* the same sort, oldest first
RECURSIVE InsertOldestFirst(_, _, _)
InsertOldestFirst(store, sorted, x) ==
    IF sorted = <<>> THEN <<x>>
    ELSE IF store[x].CreateAt < store[sorted[Len(sorted)]].CreateAt
         THEN InsertOldestFirst(store, SubSeq(sorted, 1, Len(sorted) - 1), x)
                  \o <<sorted[Len(sorted)]>>
         ELSE sorted \o <<x>>

RECURSIVE SortOldestFirst(_, _)
SortOldestFirst(store, order) ==
    IF order = <<>> THEN <<>>
    ELSE InsertOldestFirst(store,
             SortOldestFirst(store, SubSeq(order, 1, Len(order) - 1)), order[Len(order)])

\* postThread.Order after AddOrder of every post, in the order the map yields
\* them, and SortByCreateAt
RECURSIVE SortByCreateAt(_, _)
SortByCreateAt(store, order) ==
    IF order = <<>> THEN <<>>
    ELSE InsertNewestFirst(store,
             SortByCreateAt(store, SubSeq(order, 1, Len(order) - 1)), order[Len(order)])

\* SearchPostsInTeam(teamId, from:username): posts of that author, as the
\* host ranks them (any selection, any order)
SearchResults(store, username) ==
    LET mine == {id \in DOMAIN store : UserOf(store[id].UserId).Username = username}
    IN  UNION {Perms(S) : S \in SUBSET mine}

\* err.Error() of a *model.AppError: never empty
AppErrText == "SqlPostStore.Get: app error"

NoHost == [userOk |-> TRUE, chanOk |-> TRUE, lookupOk |-> TRUE, list |-> <<>>, updateOk |-> TRUE]

-----------------------------------------------------------------------------
(* The plugin *)

usage == "Usage: s/{text to be replaced}/{new text}"
noPostsFoundError == "s/ Command: No previous post to be replaced."
dismissPost == "plugin.message_will_be_posted.dismiss_post"

\* The text of a notice: its fixed pieces, and the user texts it quotes.
\* fmt.Sprintf of the invalid-format text and usage
InvalidFormatMsg == [text |-> <<"Invalid command format. ", usage>>, quoted |-> <<>>]

\* notification.Message = errId
ErrMsg(errId) == [text |-> <<errId>>, quoted |-> <<>>]

\* the confirmation: s/ Replaced, old in quotes, for, new in quotes
ReplacedMsg(old, new) == [text |-> <<"s/ Replaced ", " for ">>, quoted |-> <<old, new>>]

\* the host API calls, as they are recorded
CallGetUser(uid) == [api |-> "GetUser", arg |-> uid]
CallGetChannel(cid) == [api |-> "GetChannel", arg |-> cid]
CallGetPostThread(rootId) == [api |-> "GetPostThread", arg |-> rootId]
CallSearchPostsInTeam(teamId, username) ==
    [api |-> "SearchPostsInTeam", arg |-> <<teamId, <<"from:", username>>>>]
CallUpdatePost(id, message) == [api |-> "UpdatePost", arg |-> <<id, message>>]
CallSendEphemeralPost(uid, message, channelId, rootId) ==
    [api |-> "SendEphemeralPost",
     arg |-> [to |-> uid, Message |-> message, ChannelId |-> channelId, RootId |-> rootId]]

\* the first post of the order, whoever wrote it
FirstOfAnyUser(store, order, uid) ==
    IF order # <<>> THEN order[1] ELSE ""

\* the scan of the sorted thread: the first post of the order written by the user
FirstByUser(store, order, uid) ==
    IF \E i \in 1..Len(order) : store[order[i]].UserId = uid
    THEN order[CHOOSE i \in 1..Len(order) :
                   /\ store[order[i]].UserId = uid
                   /\ \A k \in 1..(i - 1) : store[order[k]].UserId # uid]
    ELSE ""

\* a search that reports a failed lookup as an empty result
SearchInTeamHidingError(store, user, teamId, h) ==
    LET call == <<CallSearchPostsInTeam(teamId, user.Username)>>
    IN  IF ~h.lookupOk \/ Len(h.list) < 1
        THEN [id |-> "", errId |-> noPostsFoundError, calls |-> call]
        ELSE [id |-> h.list[1], errId |-> "", calls |-> call]

\* getLastPost outside a thread: [id of the post found, errId, calls made],
\* h the answers of the host
SearchInTeam(store, user, teamId, h) ==
    LET call == <<CallSearchPostsInTeam(teamId, user.Username)>>
    IN  IF ~h.lookupOk
        THEN [id |-> "", errId |-> AppErrText, calls |-> call]
        ELSE IF Len(h.list) < 1
        THEN [id |-> "", errId |-> noPostsFoundError, calls |-> call]
        ELSE [id |-> h.list[1], errId |-> "", calls |-> call]

\* getLastPost in a thread
SearchInThread(store, user, rootId, h) ==
    LET call == <<CallGetPostThread(rootId)>>
    IN  IF ~h.lookupOk
        THEN [id |-> "", errId |-> AppErrText, calls |-> call]
        ELSE LET found == FirstByUser(store, SortByCreateAt(store, h.list), user.Id)
             IN  IF found # ""
                 THEN [id |-> found, errId |-> "", calls |-> call]
                 ELSE [id |-> "", errId |-> noPostsFoundError, calls |-> call]

getLastPost(store, user, teamId, rootId, h) ==
    IF rootId # ""
    THEN SearchInThread(store, user, rootId, h)
    ELSE SearchInTeam(store, user, teamId, h)

SubstituteFirstOnly(store, id, old, new) ==
    [id |-> id, message |-> ReplaceFirstOnly(store[id].Message, old, new)]

\* lastPost.Message = replace(lastPost.Message, old, new): the post handed to UpdatePost
Substitute(store, id, old, new) ==
    [id |-> id, message |-> replace(store[id].Message, old, new)]

\* the reason code of the silent returns (return nil and the empty string)
SilentReturn == ""

\* MessageWillBePosted(c, post): [ret, calls, posts, target], h the answers of the host
Hook(store, p, h) ==
    LET trimmedMessage == TrimSpace(p.Message)
        notify(uid, msg) == CallSendEphemeralPost(uid, msg, p.ChannelId, p.RootId)
    IN
    IF ~HasPrefix(trimmedMessage, cmdPrefix)
    THEN [ret |-> "", calls |-> <<>>, posts |-> store, target |-> ""]
    ELSE
    LET oldAndNew == splitAndValidateInput(trimmedMessage)
    IN
    IF oldAndNew.err # ""
    THEN [ret |-> dismissPost, calls |-> <<notify(p.UserId, InvalidFormatMsg)>>,
          posts |-> store, target |-> ""]
    ELSE
    LET old == oldAndNew.strs[1]
        new == oldAndNew.strs[2]
        c1  == <<CallGetUser(p.UserId)>>
    IN
    IF ~h.userOk
    THEN [ret |-> SilentReturn, calls |-> c1, posts |-> store, target |-> ""]
    ELSE
    LET user == UserOf(p.UserId)
        c2   == c1 \o <<CallGetChannel(p.ChannelId)>>
    IN
    IF ~h.chanOk
    THEN [ret |-> SilentReturn, calls |-> c2, posts |-> store, target |-> ""]
    ELSE
    LET last == getLastPost(store, user, Channel.TeamId, p.RootId, h)
        c3   == c2 \o last.calls
    IN
    IF last.errId # ""
    THEN [ret |-> dismissPost, calls |-> c3 \o <<notify(user.Id, ErrMsg(last.errId))>>,
          posts |-> store, target |-> ""]
    ELSE
    LET upd == Substitute(store, last.id, old, new)
        c4  == c3 \o <<CallUpdatePost(upd.id, upd.message)>>
    IN
    IF ~h.updateOk
    THEN [ret |-> SilentReturn, calls |-> c4, posts |-> store, target |-> last.id]
    ELSE [ret |-> dismissPost,
          calls |-> c4 \o <<notify(user.Id, ReplacedMsg(old, new))>>,
          posts |-> [store EXCEPT ![upd.id].Message = upd.message],
          target |-> last.id]

\* what the host can answer during one run of the hook on p; the answers to
\* calls the hook does not reach stay at their defaults
HostAnswers(store, p) ==
    LET trimmed == TrimSpace(p.Message)
        lists == IF p.RootId # ""
                 THEN Perms(ThreadIds(store, p.RootId))
                 ELSE SearchResults(store, UserOf(p.UserId).Username)
    IN  IF ~HasPrefix(trimmed, cmdPrefix) \/ splitAndValidateInput(trimmed).err # ""
        THEN {NoHost}
        ELSE {[NoHost EXCEPT !.userOk = FALSE],
              [NoHost EXCEPT !.chanOk = FALSE],
              [NoHost EXCEPT !.lookupOk = FALSE]}
             \cup {[NoHost EXCEPT !.list = l] :
                      l \in {x \in lists : getLastPost(store, UserOf(p.UserId),
                                               Channel.TeamId, p.RootId,
                                               [NoHost EXCEPT !.list = x]).errId # ""}}
             \cup {[NoHost EXCEPT !.list = l, !.updateOk = u] :
                      l \in {x \in lists : getLastPost(store, UserOf(p.UserId),
                                               Channel.TeamId, p.RootId,
                                               [NoHost EXCEPT !.list = x]).errId = ""},
                      u \in BOOLEAN}

NoPost == [Message |-> <<>>, UserId |-> "", ChannelId |-> "", RootId |-> ""]
NoStore == [id \in {} |-> 0]

HookIdle ==
    /\ posts = NoStore /\ prev = NoStore
    /\ pc = "off"
    /\ post = NoPost /\ host = NoHost
    /\ calls = <<>> /\ ret = "" /\ target = ""

\* the host calls the hook with a message that is about to be posted
MessageWillBePosted ==
    /\ pc = "idle"
    /\ \E p \in Incoming : \E h \in HostAnswers(posts, p) :
          LET r == Hook(posts, p, h)
          IN  /\ post' = p
              /\ host' = h
              /\ prev' = posts
              /\ posts' = r.posts
              /\ calls' = r.calls
              /\ ret' = r.ret
              /\ target' = r.target
    /\ pc' = "returned"
    /\ UNCHANGED <<parseVars, replVars>>

\* the id and creation time the host gives the message if it stores it
NewPostId == "n1"

\* the host acts on what the hook returned: an empty reason code lets the message
\* through and it is stored as a post, any other rejects it
HostStoresOrRejects ==
    /\ pc = "returned"
    /\ posts' = IF ret = ""
                THEN [id \in DOMAIN posts \cup {NewPostId} |->
                        IF id = NewPostId
                        THEN [UserId |-> post.UserId, CreateAt |-> Now,
                              RootId |-> post.RootId, Message |-> post.Message]
                        ELSE posts[id]]
                ELSE posts
    /\ pc' = "done"
    /\ UNCHANGED <<post, host, prev, calls, ret, target, parseVars, replVars>>

-----------------------------------------------------------------------------
(* The functions applied on their own *)

\* characters of the messages handed to splitAndValidateInput
ParseChars == {"s", "/", "a", " "}

\* characters of the texts, patterns and replacements handed to replace
StrChars == {"a", " "}
OldChars == {"a", " "}
NewChars == {"a", " ", "$", "1"}

\* the old and new a parsed command can give: old is not empty and starts with
\* no space (the input is trimmed before it is split), new is not empty
ParsedOlds == {o \in Strs(OldChars, MaxOldLen) : o # <<>> /\ ~IsSpace(o[1])}
ParsedNews == Strs(NewChars, MaxNewLen) \ {<<>>}

ParseIdle ==
    /\ pmsg = <<>>
    /\ pres = [strs |-> <<>>, err |-> ""]
    /\ ppc = "off"

ReplIdle ==
    /\ rstr = <<>> /\ rold = <<>> /\ rnew = <<>>
    /\ rout = <<>> /\ rout2 = <<>>
    /\ rpc = "off"

\* the call the test makes: splitAndValidateInput(strings.TrimSpace(command))
ParseCall ==
    /\ ppc = "input"
    /\ pres' = splitAndValidateInput(TrimSpace(pmsg))
    /\ ppc' = "parsed"
    /\ UNCHANGED <<pmsg, hookVars, replVars>>

\* replace(str, old, new)
ReplaceCall ==
    /\ rpc = "input"
    /\ rout' = replace(rstr, rold, rnew)
    /\ rpc' = "once"
    /\ UNCHANGED <<rstr, rold, rnew, rout2, hookVars, parseVars>>

\* replace applied to its own result, with the same old and new
ReplaceAgain ==
    /\ rpc = "once"
    /\ rout2' = replace(rout, rold, rnew)
    /\ rpc' = "twice"
    /\ UNCHANGED <<rstr, rold, rnew, rout, hookVars, parseVars>>

-----------------------------------------------------------------------------
(* Specifications *)

\* the hook, entered once on any store of the model with any message
Init ==
    /\ posts \in Stores
    /\ prev = posts
    /\ pc = "idle"
    /\ post = NoPost /\ host = NoHost
    /\ calls = <<>> /\ ret = "" /\ target = ""
    /\ ParseIdle /\ ReplIdle

Next == MessageWillBePosted \/ HostStoresOrRejects

Spec == Init /\ [][Next]_vars

\* splitAndValidateInput on any message of the model
InitParse ==
    /\ pmsg \in Strs(ParseChars, MaxParseLen)
    /\ pres = [strs |-> <<>>, err |-> ""]
    /\ ppc = "input"
    /\ HookIdle /\ ReplIdle

NextParse == ParseCall

SpecParse == InitParse /\ [][NextParse]_vars

\* replace on any text, pattern and replacement of the model
InitReplace ==
    /\ rstr \in Strs(StrChars, MaxStrLen)
    /\ rold \in ParsedOlds
    /\ rnew \in ParsedNews
    /\ rout = <<>> /\ rout2 = <<>>
    /\ rpc = "input"
    /\ HookIdle /\ ParseIdle

NextReplace == ReplaceCall \/ ReplaceAgain

SpecReplace == InitReplace /\ [][NextReplace]_vars

-----------------------------------------------------------------------------
(* What the claims speak of, stated without the functions of the plugin *)

\* the hook has run on the message in post
Entered == pc \in {"returned", "done"}

\* the index of the first character of m that is no space, 0 when there is none
FirstNonSpace(m) ==
    IF \A i \in 1..Len(m) : m[i] = " " THEN 0
    ELSE CHOOSE i \in 1..Len(m) : m[i] # " " /\ \A k \in 1..(i - 1) : m[k] = " "

\* the index of the last character of m that is no space, 0 when there is none
LastNonSpace(m) ==
    IF \A i \in 1..Len(m) : m[i] = " " THEN 0
    ELSE CHOOSE i \in 1..Len(m) : m[i] # " " /\ \A k \in (i + 1)..Len(m) : m[k] = " "

\* m without its leading spaces
DropLeadingSpaces(m) ==
    IF FirstNonSpace(m) = 0 THEN <<>> ELSE SubSeq(m, FirstNonSpace(m), Len(m))

\* m is made of spaces only
Blank(m) == FirstNonSpace(m) = 0

\* m has neither a leading nor a trailing space
IsTrimmed(m) == m = <<>> \/ (m[1] # " " /\ m[Len(m)] # " ")

\* the trimmed text of m starts with s/
StartsWithCommandPrefix(m) ==
    LET i == FirstNonSpace(m)
    IN  i # 0 /\ i < Len(m) /\ m[i] = "s" /\ m[i + 1] = "/"

\* m holds s/ somewhere
HoldsCommandPrefix(m) == \E i \in 1..(Len(m) - 1) : m[i] = "s" /\ m[i + 1] = "/"

\* what follows the s/ of a command, up to the end of its trimmed text
CommandBody(m) == SubSeq(m, FirstNonSpace(m) + 2, LastNonSpace(m))

Slashes(b) == {i \in 1..Len(b) : b[i] = "/"}

\* the i-th slash of b, Len(b) + 1 when b has fewer
NthSlash(b, n) ==
    IF Cardinality(Slashes(b)) < n THEN Len(b) + 1
    ELSE CHOOSE i \in Slashes(b) : Cardinality({j \in Slashes(b) : j < i}) = n - 1

\* the text of b before its first slash, and between its first and second slash
FirstSegment(b) == SubSeq(b, 1, NthSlash(b, 1) - 1)
SecondSegment(b) == SubSeq(b, NthSlash(b, 1) + 1, NthSlash(b, 2) - 1)

\* the four cases in which a remainder b does not parse
BadRemainder(b) ==
    \/ b = <<>>
    \/ Slashes(b) = {}
    \/ FirstSegment(b) = <<>>
    \/ SecondSegment(b) = <<>>

\* the command in post is well formed, and the old and new it gives
WellFormed == ~BadRemainder(DropLeadingSpaces(CommandBody(post.Message)))
TheOld == FirstSegment(DropLeadingSpaces(CommandBody(post.Message)))
TheNew == SecondSegment(DropLeadingSpaces(CommandBody(post.Message)))

\* what the hook called
CountCalls(api) == Cardinality({i \in 1..Len(calls) : calls[i].api = api})
IsNotice(c) == c.api = "SendEphemeralPost"
Notices == SelectSeq(calls, IsNotice)
NoticeTo(uid, message) ==
    [api |-> "SendEphemeralPost",
     arg |-> [to |-> uid, Message |-> message,
              ChannelId |-> post.ChannelId, RootId |-> post.RootId]]

\* the posts the hook was entered with are as they were
StoreUnchanged == \A id \in DOMAIN prev : id \in DOMAIN posts /\ posts[id] = prev[id]

\* the message handed to the hook has become a post
Stored == NewPostId \in DOMAIN posts

\* the posts of the thread the command was posted in
InThread == {id \in DOMAIN prev : id = post.RootId \/ prev[id].RootId = post.RootId}

\* the posts the command may be applied to: in a thread, the newest of the
\* posts of the thread written by the author of the command; outside, the first
\* post of the search result
Candidates ==
    IF post.RootId # ""
    THEN {id \in InThread :
             /\ prev[id].UserId = post.UserId
             /\ \A o \in InThread :
                   prev[o].UserId = post.UserId => prev[o].CreateAt =< prev[id].CreateAt}
    ELSE IF host.list # <<>> THEN {host.list[1]} ELSE {}

\* a well-formed command whose user and channel lookups succeeded
Looked == /\ Entered /\ StartsWithCommandPrefix(post.Message) /\ WellFormed
          /\ host.userOk /\ host.chanOk

-----------------------------------------------------------------------------
(* The claims about the hook, under Spec *)

\* C1: a message whose trimmed text starts with s/ is dismissed in every
\* outcome (dismiss_post is returned and the message is never stored).
C1_CommandAlwaysDismissed ==
    (Entered /\ StartsWithCommandPrefix(post.Message))
        => (ret = dismissPost /\ ~Stored)

\* C2: a message whose trimmed text does not start with s/ is allowed
\* unmodified, and the hook calls the host not once: no post is changed, no
\* notice is sent, and the message is stored as it was written.
C2_NonCommandPassesUntouched ==
    (Entered /\ ~StartsWithCommandPrefix(post.Message))
        => /\ ret = ""
           /\ calls = <<>>
           /\ StoreUnchanged
           /\ pc = "returned" => posts = prev
           /\ pc = "done" => (Stored /\ posts[NewPostId].Message = post.Message)

C2_Witness ==
    /\ pc = "done"
    /\ ~StartsWithCommandPrefix(post.Message)
    /\ HoldsCommandPrefix(post.Message)
    /\ post.Message[1] = "s"
    /\ Stored

\* C3: a well-formed command whose lookups succeed, that has a target and whose
\* update succeeds issues exactly one UpdatePost, on the target, with the
\* message replace(previous message, old, new); no other post changes; then one
\* confirmation quoting old and new goes to the author; the command is dismissed.
C3_SuccessfulReplacement ==
    (Looked /\ host.lookupOk /\ host.updateOk /\ Candidates # {})
        => LET text == replace(prev[target].Message, TheOld, TheNew)
           IN  /\ target \in Candidates
               /\ CountCalls("UpdatePost") = 1
               /\ CountCalls("SendEphemeralPost") = 1
               /\ Len(calls) >= 2
               /\ calls[Len(calls) - 1] = CallUpdatePost(target, text)
               /\ calls[Len(calls)] = NoticeTo(post.UserId, ReplacedMsg(TheOld, TheNew))
               /\ \A id \in DOMAIN prev :
                     posts[id] = IF id = target
                                 THEN [prev[id] EXCEPT !.Message = text]
                                 ELSE prev[id]
               /\ ret = dismissPost
               /\ ~Stored

C3_Witness ==
    /\ pc = "done"
    /\ Looked /\ host.lookupOk /\ host.updateOk /\ Candidates # {}
    /\ post.RootId = "r1" /\ target = "p1"
    /\ prev["p1"].Message = <<"a", " ", "s", " ", "a">>
    /\ posts["p1"].Message = <<"s", " ", "s", " ", "s">>
    /\ ~Stored

\* C4: a command posted in a thread consults GetPostThread alone and selects the
\* newest post of the thread written by its author, in whatever order the host
\* gave the thread; a command posted outside a thread consults
\* SearchPostsInTeam alone, for the username of its author in the team of the
\* channel, and selects the first post of the result.
C4_TargetFollowsScope ==
    Entered =>
        /\ post.RootId # "" => CountCalls("SearchPostsInTeam") = 0
        /\ post.RootId = "" => CountCalls("GetPostThread") = 0
        /\ Looked =>
              /\ Len(calls) >= 3
              /\ calls[3] = IF post.RootId # ""
                            THEN CallGetPostThread(post.RootId)
                            ELSE CallSearchPostsInTeam(Channel.TeamId,
                                                       UserOf(post.UserId).Username)
              /\ CountCalls("SearchPostsInTeam") + CountCalls("GetPostThread") = 1
        /\ target # "" => target \in Candidates
        /\ (Looked /\ host.lookupOk /\ Candidates # {}) => target \in Candidates

C4_Witness ==
    /\ Looked /\ host.lookupOk
    /\ post.RootId = "r1" /\ post.UserId = "u1"
    /\ prev["p1"].CreateAt < prev["p2"].CreateAt
    /\ host.list = <<"p1", "r1", "p2">>
    /\ target = "p2"

\* C5: when the command parses and the lookups succeed but the author has no
\* post in scope, exactly one notice, the no-previous-post text, goes to the
\* author, no UpdatePost is issued, no post changes and the command is dismissed.
C5_NoMatchFound ==
    (Looked /\ host.lookupOk /\ Candidates = {})
        => /\ Notices = <<NoticeTo(post.UserId, ErrMsg(noPostsFoundError))>>
           /\ CountCalls("UpdatePost") = 0
           /\ StoreUnchanged
           /\ target = ""
           /\ ret = dismissPost
           /\ ~Stored

C5_Witness ==
    /\ pc = "done"
    /\ Looked /\ host.lookupOk /\ Candidates = {}
    /\ post.RootId = "r2" /\ post.UserId = "u1"
    /\ Notices = <<NoticeTo("u1", ErrMsg(noPostsFoundError))>>

\* the outcome ParseFailed: one usage notice to the author, no other call, the
\* store untouched, the command dismissed
ParseFailedOutcome ==
    /\ calls = <<NoticeTo(post.UserId, InvalidFormatMsg)>>
    /\ StoreUnchanged
    /\ ret = dismissPost
    /\ ~Stored

\* C6 as stated: a command ends in ParseFailed exactly when the remainder after
\* the prefix is empty, has fewer than two segments, or has an empty first or
\* second segment.
C6_ParseFailsOnRawRemainder ==
    (Entered /\ StartsWithCommandPrefix(post.Message))
        => (ParseFailedOutcome <=> BadRemainder(CommandBody(post.Message)))

\* C6 amended: a command ends in ParseFailed (one usage notice to the author, no
\* GetUser, GetChannel, lookup or UpdatePost, dismissed) exactly when the
\* remainder after the prefix, with the whitespace around it trimmed, is empty,
\* has fewer than two segments, or has an empty first or second segment; a
\* command that does not end so sends no usage notice.
C6_ParseFailsOnTrimmedRemainder ==
    (Entered /\ StartsWithCommandPrefix(post.Message))
        => /\ ParseFailedOutcome <=> ~WellFormed
           /\ WellFormed =>
                 \A i \in 1..Len(calls) : calls[i] # NoticeTo(post.UserId, InvalidFormatMsg)

C6_Witness ==
    /\ pc = "done"
    /\ post.Message = <<"s", "/", " ", "/", "a">>
    /\ ParseFailedOutcome

-----------------------------------------------------------------------------
(* The claims about splitAndValidateInput, under SpecParse *)

\* pmsg is a trimmed message that starts with s/, and has been parsed
ParsedCommand ==
    ppc = "parsed" /\ IsTrimmed(pmsg) /\ StartsWithCommandPrefix(pmsg)

\* pmsg is s/<old>/<new>, old and new not empty and without a slash
TwoSegments ==
    /\ Cardinality(Slashes(CommandBody(pmsg))) = 1
    /\ FirstSegment(CommandBody(pmsg)) # <<>>
    /\ SecondSegment(CommandBody(pmsg)) # <<>>

\* pmsg has more than two segments, the first two not empty
MoreSegments ==
    /\ Cardinality(Slashes(CommandBody(pmsg))) > 1
    /\ FirstSegment(CommandBody(pmsg)) # <<>>
    /\ SecondSegment(CommandBody(pmsg)) # <<>>

\* C8 as stated: s/<old>/<new> parses to exactly <old> and <new>, whitespace
\* included; with more segments the parse still succeeds and gives the first
\* two; old and new of a successful parse are not empty after trimming.
C8_ParseYieldsOldAndNew ==
    ParsedCommand =>
        /\ TwoSegments =>
              /\ pres.err = ""
              /\ pres.strs = <<FirstSegment(CommandBody(pmsg)),
                               SecondSegment(CommandBody(pmsg))>>
        /\ MoreSegments =>
              /\ pres.err = ""
              /\ pres.strs[1] = FirstSegment(CommandBody(pmsg))
              /\ pres.strs[2] = SecondSegment(CommandBody(pmsg))
        /\ pres.err = "" => (~Blank(pres.strs[1]) /\ ~Blank(pres.strs[2]))

\* C8 amended: for a trimmed message s/<old>/<new>, old and new not empty and
\* without a slash, the parse succeeds exactly when <old> is not whitespace
\* only, and its two segments are then <old> without its leading whitespace and
\* <new> unchanged (so exactly <old> and <new> when <old> has no leading
\* whitespace); with more than two segments, the first not whitespace only and
\* the second not empty, it still succeeds and old and new are the first two
\* segments, the first without its leading whitespace; in every successful
\* parse old and new are not empty and old is not empty after trimming.
C8_ParseYieldsTrimmedOldAndNew ==
    ParsedCommand =>
        /\ TwoSegments =>
              IF Blank(FirstSegment(CommandBody(pmsg)))
              THEN pres.err # "" /\ pres.strs = <<>>
              ELSE /\ pres.err = ""
                   /\ pres.strs = <<DropLeadingSpaces(FirstSegment(CommandBody(pmsg))),
                                    SecondSegment(CommandBody(pmsg))>>
        /\ (MoreSegments /\ ~Blank(FirstSegment(CommandBody(pmsg)))) =>
              /\ pres.err = ""
              /\ Len(pres.strs) = Cardinality(Slashes(CommandBody(pmsg))) + 1
              /\ pres.strs[1] = DropLeadingSpaces(FirstSegment(CommandBody(pmsg)))
              /\ pres.strs[2] = SecondSegment(CommandBody(pmsg))
        /\ pres.err = "" =>
              /\ Len(pres.strs) >= 2
              /\ pres.strs[1] # <<>> /\ pres.strs[2] # <<>>
              /\ ~Blank(pres.strs[1])

C8_Witness ==
    /\ ParsedCommand /\ TwoSegments
    /\ pmsg = <<"s", "/", " ", "a", " ", "/", "a">>
    /\ pres = [strs |-> <<<<"a", " ">>, <<"a">>>>, err |-> ""]

-----------------------------------------------------------------------------
(* The claims about replace, under SpecReplace *)

WordOnly(t) == t # <<>> /\ \A i \in 1..Len(t) : IsWordChar(t[i])

\* the length of the run of word characters that t starts with
WordRun(t) ==
    IF \A i \in 1..Len(t) : IsWordChar(t[i]) THEN Len(t)
    ELSE (CHOOSE i \in 1..Len(t) :
              ~IsWordChar(t[i]) /\ \A k \in 1..(i - 1) : IsWordChar(t[k])) - 1

\* t with each of its words that is old replaced by new, all else kept
RECURSIVE SubstituteWords(_, _, _)
SubstituteWords(t, old, new) ==
    IF t = <<>> THEN <<>>
    ELSE IF ~IsWordChar(t[1]) THEN <<t[1]>> \o SubstituteWords(Tail(t), old, new)
    ELSE LET n == WordRun(t)
             w == SubSeq(t, 1, n)
         IN  (IF w = old THEN new ELSE w)
                 \o SubstituteWords(SubSeq(t, n + 1, Len(t)), old, new)

\* old occurs in t as a whole word: neither preceded nor followed by a word
\* character, the ends of t counting as boundaries
OccursWholeWord(t, old) ==
    \E i \in 0..(Len(t) - Len(old)) :
        /\ SubSeq(t, i + 1, i + Len(old)) = old
        /\ (i = 0 \/ ~IsWordChar(t[i]))
        /\ (i + Len(old) = Len(t) \/ ~IsWordChar(t[i + Len(old) + 1]))

\* C9: for an old made of word characters, replace puts new in the place of
\* every whole-word occurrence of old and leaves everything else as it was.
C9_ReplacesWholeWordsByNew ==
    (rpc \in {"once", "twice"} /\ WordOnly(rold))
        => rout = SubstituteWords(rstr, rold, rnew)

\* C10 as stated, on the replacements that hold no dollar sign: replace is
\* idempotent whenever new holds no whole-word occurrence of old.
C10_IdempotentForAnyOld ==
    (rpc = "twice" /\ (\A i \in 1..Len(rnew) : rnew[i] # "$")
       /\ ~OccursWholeWord(rnew, rold) /\ ~(\E i \in 0..Len(rnew) : MatchAt(rnew, rold, i)))
        => rout2 = rout

\* C10 amended: replace is idempotent for every old made of word characters
\* only and every new such that the text replace inserts (new with its
\* dollar-sign references expanded, which is new when it holds no dollar sign)
\* holds no whole-word occurrence of old.
C10_IdempotentForWordOld ==
    (rpc = "twice" /\ WordOnly(rold) /\ ~OccursWholeWord(Expand(rnew, rold), rold))
        => rout2 = rout

C10_Witness ==
    /\ rpc = "twice"
    /\ WordOnly(rold) /\ ~OccursWholeWord(Expand(rnew, rold), rold)
    /\ rstr = <<"a", "a", " ", "a">> /\ rold = <<"a">> /\ rnew = <<"a", "a">>
    /\ rout = <<"a", "a", " ", "a", "a">>
    /\ rout2 = rout

=============================================================================
